---- MODULE Spec2Model ----
(***************************************************************************)
(* Model of the three Streamlit utilities of the repository:               *)
(*   gen_gl.py       the GL/TLF reconciler  (SpecPick, SpecGL, SpecSheet,  *)
(*                   SpecNames)                                            *)
(*   Gen_database.py the Excel -> Parquet merger (SpecMerge)               *)
(*   app.py          the SQL query runner (SpecApp, SpecRun, SpecPages)    *)
(* Strings are tuples of one-character strings, so that the regular        *)
(* expressions, slices and comparisons of the code are computed.           *)
(***************************************************************************)
EXTENDS Integers, Sequences, FiniteSets, TLC

VARIABLES
    \* ---- gen_gl.py ----
    pc,               \* position of the reconciler run
    zip_walk,         \* files of the extracted ZIP, in os.walk order
    tlf_path,         \* gen_gl.py:426  (None or a path)
    source_files,     \* gen_gl.py:427  (list of base names)
    sheet_names,      \* tlf_book.sheet_names, once the TLF workbook is open
    files_to_process, \* gen_gl.py:140
    item_idx,         \* position of the loop of gen_gl.py:146
    book,             \* writer.book: the pages written so far
    reads,            \* per processed item: the path opened and the sheet used
    printed,          \* file names printed by gen_gl.py:398
    ret,              \* value returned by process_data_in_memory
    ui,               \* what the page shows after the run
    tlf_df,           \* gen_gl.py:173-186  the reference table of one item
    gl_df,            \* gen_gl.py:190-217  the source table of one item
    ws,               \* gen_gl.py:223      the worksheet written for the item
    \* ---- Gen_database.py ----
    workbook,         \* the uploaded workbook: a list of sheets
    merge_ret,        \* result of merge_excel_to_parquet_bytes
    merge_ui,         \* what the merger page shows
    \* ---- app.py ----
    data_frame,       \* st.session_state.data_frame
    query_pages,      \* st.session_state.query_pages
    active_page_id,   \* st.session_state.active_page_id
    page_selector_id, \* st.session_state.page_selector_id
    is_switching_page,\* st.session_state.is_switching_page
    run_id,           \* st.session_state.run_id
    uuid_count,       \* number of uuid4() values drawn so far
    toast,            \* last st.toast shown by a page helper
    last_call,        \* the page helper that ran last, and whether it returned early
    sent,             \* the text handed to duckdb.query by the last rerun (line 216)
    error             \* the st.error shown by the last rerun (line 224)

glVars == <<pc, zip_walk, tlf_path, source_files, sheet_names, files_to_process,
            item_idx, book, reads, printed, ret, ui>>
sheetVars == <<tlf_df, gl_df, ws>>
mergeVars == <<workbook, merge_ret, merge_ui>>
appVars == <<data_frame, query_pages, active_page_id, page_selector_id, is_switching_page,
             run_id, uuid_count, toast, last_call, sent, error>>
vars == <<glVars, sheetVars, mergeVars, appVars>>

\* Python's None, where a string may stand
None == <<"None">>

(***************************************************************************)
(* Strings.                                                                *)
(***************************************************************************)
\* The characters used, in increasing code point order.
AsciiOrder ==
    <<" ", "-", ".", "0", "1", "2", "3", "4", "5", "6", "7", "8", "9", ":",
      "A", "B", "C", "D", "E", "F", "G", "H", "I", "J", "K", "L", "M", "N",
      "O", "P", "Q", "R", "S", "T", "U", "V", "W", "X", "Y", "Z", "_",
      "a", "b", "c", "d", "e", "f", "g", "h", "i", "j", "k", "l", "m", "n",
      "o", "p", "q", "r", "s", "t", "u", "v", "w", "x", "y", "z">>

\* ord(c), counted from the first character of the alphabet
Ord(c) == CHOOSE i \in DOMAIN AsciiOrder : AsciiOrder[i] = c

\* str.lower() on one character and on a string
LowerChar(c) ==
    CASE c = "A" -> "a" []
         c = "B" -> "b" []
         c = "C" -> "c" []
         c = "D" -> "d" []
         c = "E" -> "e" []
         c = "F" -> "f" []
         c = "G" -> "g" []
         c = "H" -> "h" []
         c = "I" -> "i" []
         c = "J" -> "j" []
         c = "K" -> "k" []
         c = "L" -> "l" []
         c = "M" -> "m" []
         c = "N" -> "n" []
         c = "O" -> "o" []
         c = "P" -> "p" []
         c = "Q" -> "q" []
         c = "R" -> "r" []
         c = "S" -> "s" []
         c = "T" -> "t" []
         c = "U" -> "u" []
         c = "V" -> "v" []
         c = "W" -> "w" []
         c = "X" -> "x" []
         c = "Y" -> "y" []
         c = "Z" -> "z" []
         OTHER -> c
Lower(s) == [i \in DOMAIN s |-> LowerChar(s[i])]

Digits == {"0", "1", "2", "3", "4", "5", "6", "7", "8", "9"}
DigitVal(c) == Ord(c) - Ord("0")

\* s[a:b] of Python, 0-based, b exclusive, clipped to the string
Slice(s, a, b) ==
    LET hi == IF b > Len(s) THEN Len(s) ELSE b
    IN  IF a >= hi THEN <<>> ELSE [i \in 1..(hi - a) |-> s[a + i]]

StartsWith(s, p) == Len(p) <= Len(s) /\ Slice(s, 0, Len(p)) = p
EndsWith(s, p) == Len(p) <= Len(s) /\ Slice(s, Len(s) - Len(p), Len(s)) = p

\* sub in s
Contains(s, sub) == \E a \in 0..(Len(s) - Len(sub)) : Slice(s, a, a + Len(sub)) = sub

\* int(s) for a string of decimal digits
RECURSIVE ToInt(_)
ToInt(s) ==
    IF s = <<>> THEN 0
    ELSE 10 * ToInt(Slice(s, 0, Len(s) - 1)) + DigitVal(s[Len(s)])

\* a < b for Python strings (code point order)
RECURSIVE StrLess(_, _)
StrLess(a, b) ==
    IF b = <<>> THEN FALSE
    ELSE IF a = <<>> THEN TRUE
    ELSE IF a[1] # b[1] THEN Ord(a[1]) < Ord(b[1])
    ELSE StrLess(Tail(a), Tail(b))

AllDigits(s, a, n) == a + n <= Len(s) /\ \A i \in (a + 1)..(a + n) : s[i] \in Digits

\* os.path.basename: what follows the last "/"
Basename(s) ==
    LET cuts == {i \in DOMAIN s : s[i] = "/"}
    IN  IF cuts = {} THEN s
        ELSE Slice(s, CHOOSE i \in cuts : \A j \in cuts : j <= i, Len(s))

(***************************************************************************)
(* gen_gl.py: parse_dates_from_filename                                    *)
(***************************************************************************)
\* 0-based positions p where D<6 digits> starts (re.IGNORECASE)
DPositions(s) ==
    {p \in 0..(Len(s) - 1) : s[p + 1] \in {"D", "d"} /\ AllDigits(s, p + 1, 6)}

\* 0-based positions p where JV<8 digits> starts (re.IGNORECASE)
JVPositions(s) ==
    {p \in 0..(Len(s) - 2) :
        /\ s[p + 1] \in {"J", "j"}
        /\ s[p + 2] \in {"V", "v"}
        /\ AllDigits(s, p + 2, 8)}

MinOf(S) == CHOOSE x \in S : \A y \in S : x <= y

\* re.search(r'[-_]?D(?P<d>\d{6})', base): group d of the leftmost match
DDateOf(base) ==
    IF DPositions(base) = {} THEN None
    ELSE LET p == MinOf(DPositions(base)) IN Slice(base, p + 1, p + 7)

\* re.search(r'JV(?P<jv>\d{8})', base): group jv of the leftmost match
JVFullOf(base) ==
    IF JVPositions(base) = {} THEN None
    ELSE LET p == MinOf(JVPositions(base)) IN Slice(base, p + 2, p + 10)

\* jv_full[2:4] + jv_full[4:6] + jv_full[6:8]
JVDateOf(base) ==
    IF JVFullOf(base) = None THEN None
    ELSE LET jv_full == JVFullOf(base)
         IN  Slice(jv_full, 2, 4) \o Slice(jv_full, 4, 6) \o Slice(jv_full, 6, 8)

parse_dates_from_filename(filename) ==
    LET base == Basename(filename)
    IN  [d_date |-> DDateOf(base), jv_date |-> JVDateOf(base)]

(***************************************************************************)
(* gen_gl.py: pick_latest_files_by_duplicate_d_date                        *)
(***************************************************************************)
\* a path below the temporary folder: the directories below it and the name
PathJoin(dir, fn) == [dir |-> dir, name |-> fn]

\* tlf_path = None
NoPath == [dir |-> <<>>, name |-> <<>>]

\* merge_excel_to_parquet_bytes has not returned
MergeNotReturned ==
    [returned |-> FALSE, raised |-> "None", has_bytes |-> FALSE, has_stats |-> FALSE,
     merged |-> [columns |-> <<>>, rows |-> <<>>],
     stats |-> [sheet_count |-> 0, merged_rows |-> 0, per_sheet_rows |-> <<>>]]

\* no page helper has run
NoCall == [op |-> "None", early |-> FALSE]

\* process_data_in_memory has not returned
NotReturned == [returned |-> FALSE, has_excel |-> FALSE, pages |-> <<>>, error_msg |-> "None"]

valid_exts ==
    { <<".", "c", "s", "v">>, <<".", "t", "r", "f">>, <<".", "t", "x", "t">>,
      <<".", "x", "l", "s">>, <<".", "x", "l", "s", "x">> }

\* fn.lower().endswith(valid_exts)
HasValidExt(fn) ==
    \E e \in valid_exts :
        Len(e) <= Len(fn) /\ Lower(Slice(fn, Len(fn) - Len(e), Len(fn))) = e

NoDPrefix == <<"_", "_", "N", "O", "_", "D", "_", "_", ":", ":">>

\* int(jv_date) if jv_date and jv_date.isdigit() else -1
JvInt(jv_date) == IF jv_date = None \/ jv_date = <<>> THEN -1 ELSE ToInt(jv_date)

KeyIndex(chosen, key) ==
    IF \E i \in DOMAIN chosen : chosen[i].key = key
    THEN CHOOSE i \in DOMAIN chosen : chosen[i].key = key
    ELSE 0

\* a dict that keeps the old entry beside the new one
DictSet_KeepsOld(chosen, key, value) == Append(chosen, [key |-> key, value |-> value])

\* chosen[key] = value on an insertion-ordered dict
DictSet(chosen, key, value) ==
    LET e == [key |-> key, value |-> value]
    IN  IF KeyIndex(chosen, key) = 0 THEN Append(chosen, e)
        ELSE [chosen EXCEPT ![KeyIndex(chosen, key)] = e]

\* jv_int > chosen[d_date].get("_jv_int", -1)
ReplacesChosen(jv_int, old_jv_int) == jv_int > old_jv_int

\* one iteration of the loop of lines 52-72
PickStep(folder_path, chosen, fn) ==
    LET file_path == PathJoin(folder_path, fn)
        d_date == parse_dates_from_filename(fn).d_date
        jv_date == parse_dates_from_filename(fn).jv_date
        jv_int == JvInt(jv_date)
        entry == [file |-> file_path, d_date |-> d_date, jv_date |-> jv_date,
                  jv_int |-> jv_int]
    IN  IF ~HasValidExt(fn) THEN chosen
        ELSE IF d_date = None THEN DictSet(chosen, NoDPrefix \o fn, entry)
        ELSE IF KeyIndex(chosen, d_date) = 0 THEN DictSet(chosen, d_date, entry)
        ELSE IF ReplacesChosen(jv_int, chosen[KeyIndex(chosen, d_date)].value.jv_int)
             THEN DictSet(chosen, d_date, entry)
        ELSE chosen

RECURSIVE PickLoop(_, _, _)
PickLoop(folder_path, files_list, chosen) ==
    IF files_list = <<>> THEN chosen
    ELSE PickLoop(folder_path, Tail(files_list),
                  PickStep(folder_path, chosen, Head(files_list)))

\* the sort key of line 79
SortKey(x) == Lower(x.file.name)

\* list.sort is stable: x goes behind every element that is not greater
RECURSIVE InsertSorted(_, _)
InsertSorted(sorted, x) ==
    IF sorted = <<>> THEN <<x>>
    ELSE IF StrLess(SortKey(x), SortKey(Head(sorted))) THEN <<x>> \o sorted
    ELSE <<Head(sorted)>> \o InsertSorted(Tail(sorted), x)

RECURSIVE SortResults(_, _)
SortResults(results, sorted) ==
    IF results = <<>> THEN sorted
    ELSE SortResults(Tail(results), InsertSorted(sorted, Head(results)))

pick_latest_files_by_duplicate_d_date(folder_path, files_list) ==
    LET chosen == PickLoop(folder_path, files_list, <<>>)
        results == [i \in DOMAIN chosen |->
                       [file |-> chosen[i].value.file,
                        d_date |-> chosen[i].value.d_date,
                        jv_date |-> chosen[i].value.jv_date]]
    IN  SortResults(results, <<>>)

(***************************************************************************)
(* gen_gl.py: strip_d_suffix_for_tlf_sheet, make_unique_sheet_name         *)
(***************************************************************************)
\* str.strip(): the only white space of the alphabet is the blank
RECURSIVE LStrip(_)
LStrip(s) == IF s # <<>> /\ s[1] = " " THEN LStrip(Tail(s)) ELSE s

RECURSIVE RStrip(_)
RStrip(s) ==
    IF s # <<>> /\ s[Len(s)] = " " THEN RStrip(Slice(s, 0, Len(s) - 1)) ELSE s

Strip(s) == RStrip(LStrip(s))

\* 0-based positions where r'[-_]?D\d{6}' matches
DSuffixStarts(s) ==
    {p \in 0..(Len(s) - 1) :
        \/ p \in DPositions(s)
        \/ s[p + 1] \in {"-", "_"} /\ (p + 1) \in DPositions(s)}

\* re.sub(r'[-_]?D\d{6}.*$', '', name_no_ext, flags=re.IGNORECASE).strip()
strip_d_suffix_for_tlf_sheet(name_no_ext) ==
    IF DSuffixStarts(name_no_ext) = {} THEN Strip(name_no_ext)
    ELSE Strip(Slice(name_no_ext, 0, MinOf(DSuffixStarts(name_no_ext))))

\* str(i) for i >= 0
RECURSIVE IntToStr(_)
IntToStr(i) ==
    IF i < 10 THEN <<AsciiOrder[Ord("0") + i]>>
    ELSE IntToStr(i \div 10) \o <<AsciiOrder[Ord("0") + (i % 10)]>>

\* longest sheet name of a workbook
SheetNameMax == 31

DefaultSheetName == <<"S", "h", "e", "e", "t">>

\* the suffix is put behind the whole base, nothing is cut
RECURSIVE UniqueLoop_NoCut(_, _, _, _)
UniqueLoop_NoCut(sheetnames, base, name, i) ==
    IF name \notin sheetnames THEN name
    ELSE UniqueLoop_NoCut(sheetnames, base, base \o <<"_">> \o IntToStr(i), i + 1)

\* the while loop of lines 89-92
RECURSIVE UniqueLoop(_, _, _, _)
UniqueLoop(sheetnames, base, name, i) ==
    IF name \notin sheetnames THEN name
    ELSE LET suffix == <<"_">> \o IntToStr(i)
         IN  UniqueLoop(sheetnames, base,
                        Slice(Slice(base, 0, SheetNameMax - Len(suffix)) \o suffix,
                              0, SheetNameMax),
                        i + 1)

make_unique_sheet_name(sheetnames, desired_name) ==
    LET base == Slice(IF desired_name = <<>> THEN DefaultSheetName ELSE desired_name,
                      0, SheetNameMax)
    IN  UniqueLoop(sheetnames, base, base, 2)

(***************************************************************************)
(* gen_gl.py: process_data_in_memory, the part before the try block        *)
(***************************************************************************)
\* os.path.splitext(name)[0]: cut at the last dot that follows a non-dot
SplitExtRoot(s) ==
    LET dots == {i \in DOMAIN s : s[i] = "." /\ \E j \in 1..(i - 1) : s[j] # "."}
    IN  IF dots = {} THEN s
        ELSE Slice(s, 0, (CHOOSE i \in dots : \A j \in dots : j <= i) - 1)

\* re.sub(r'GL', '', s, flags=re.IGNORECASE)
RECURSIVE RemoveGL(_)
RemoveGL(s) ==
    IF s = <<>> THEN <<>>
    ELSE IF Len(s) >= 2 /\ s[1] \in {"G", "g"} /\ s[2] \in {"L", "l"}
         THEN RemoveGL(Slice(s, 2, Len(s)))
    ELSE <<s[1]>> \o RemoveGL(Tail(s))

\* line 152
DesiredSheetName(item) ==
    IF item.d_date # None /\ item.d_date # <<>> THEN item.d_date
    ELSE SplitExtRoot(item.file.name)

\* lines 155-157
FallbackLookupName(filename) ==
    strip_d_suffix_for_tlf_sheet(Strip(SplitExtRoot(RemoveGL(filename))))

\* the candidates in the order 2, 1, 3
TlfLookupCandidates_SwapFirstTwo(item) ==
    (IF item.d_date # None /\ item.d_date # <<>>
     THEN << <<"D">> \o item.d_date, item.d_date >> ELSE <<>>)
    \o <<FallbackLookupName(item.file.name)>>

\* lines 159-163
TlfLookupCandidates(item) ==
    (IF item.d_date # None /\ item.d_date # <<>>
     THEN << item.d_date, <<"D">> \o item.d_date >> ELSE <<>>)
    \o <<FallbackLookupName(item.file.name)>>

\* lines 165-169
TlfSheetToUse(cands, names) ==
    LET hits == {i \in DOMAIN cands : cands[i] # <<>> /\ cands[i] \in names}
    IN  IF hits = {} THEN None ELSE cands[MinOf(hits)]

(***************************************************************************)
(* Inputs: file names, bounded.                                            *)
(***************************************************************************)
\* longest list of file names, and most files in a ZIP
MaxFiles == 3

RECURSIVE SeqsUpTo(_, _)
SeqsUpTo(S, n) ==
    IF n = 0 THEN {<<>>}
    ELSE SeqsUpTo(S, n - 1) \cup
         {Append(q, x) : q \in {r \in SeqsUpTo(S, n - 1) : Len(r) = n - 1}, x \in S}

Range(q) == {q[i] : i \in DOMAIN q}

GLStem == <<"G", "L", "_">>
D240101 == <<"D", "2", "4", "0", "1", "0", "1">>
D240102 == <<"D", "2", "4", "0", "1", "0", "2">>
JV1999 == <<"_", "J", "V", "1", "9", "9", "9", "1", "2", "3", "1">>
JV2000 == <<"_", "J", "V", "2", "0", "0", "0", "0", "1", "0", "1">>
ExtCsv == <<".", "c", "s", "v">>
ExtTrf == <<".", "t", "r", "f">>
ExtTxtUpper == <<".", "T", "X", "T">>
ExtMd == <<".", "m", "d">>
ExtXlsx == <<".", "x", "l", "s", "x">>

Name_D1_JV1999 == GLStem \o D240101 \o JV1999 \o ExtCsv
Name_D1_JV2000 == GLStem \o D240101 \o JV2000 \o ExtCsv
Name_D1_NoJV == GLStem \o D240101 \o ExtTxtUpper
Name_D2_JV2000 == GLStem \o D240102 \o JV2000 \o ExtTrf
Name_D2_Md == GLStem \o D240102 \o ExtMd
Name_NoD == <<"G", "L", "A", "B">> \o ExtCsv
Name_Lower_D1 ==
    <<"g", "l", "-", "d", "2", "4", "0", "1", "0", "1", "_", "j", "v",
      "2", "0", "2", "4", "0", "1", "0", "5">> \o ExtXlsx

NamePool ==
    { Name_D1_JV1999, Name_D1_JV2000, Name_D1_NoJV, Name_D2_JV2000, Name_D2_Md,
      Name_NoD, Name_Lower_D1 }

(***************************************************************************)
(* Inputs: the uploaded ZIP and the reference workbook.                    *)
(***************************************************************************)
RootDir == <<>>
DataDir == << <<"d", "a", "t", "a">> >>
MacDir == << <<"_", "_", "M", "A", "C", "O", "S", "X">> >>

TLFLetters == <<"T", "L", "F">>
MacOSXLetters == <<"_", "_", "M", "A", "C", "O", "S", "X">>

Name_TLF == TLFLetters \o ExtXlsx
Name_HiddenTLF == <<".">> \o TLFLetters \o ExtXlsx
Name_AB_D1 == <<"G", "L", "A", "B", "_">> \o D240101 \o ExtCsv

ZipPool ==
    { PathJoin(RootDir, Name_TLF),
      PathJoin(RootDir, Name_HiddenTLF),
      PathJoin(RootDir, Name_AB_D1),
      PathJoin(RootDir, Name_NoD),
      PathJoin(RootDir, Name_D2_Md),
      PathJoin(DataDir, Name_D2_JV2000),
      PathJoin(DataDir, Name_TLF),
      PathJoin(MacDir, Name_D1_NoJV) }

\* os.walk is top-down: the files of the top folder come first, and the files
\* of one folder come together
IsWalkOrder(w) ==
    /\ \A i, j \in DOMAIN w : i # j => w[i] # w[j]
    /\ \A i, j \in DOMAIN w : (i < j /\ w[j].dir = RootDir) => w[i].dir = RootDir
    /\ \A i, j, k \in DOMAIN w : (i < j /\ j < k /\ w[i].dir = w[k].dir) => w[j].dir = w[i].dir

ZipWalks == {w \in SeqsUpTo(ZipPool, MaxFiles) : IsWalkOrder(w)}

Sheet_240101 == <<"2", "4", "0", "1", "0", "1">>
Sheet_D240101 == <<"D", "2", "4", "0", "1", "0", "1">>
Sheet_AB == <<"A", "B">>

\* the sheet names a reference workbook may hold
SheetPool == {Sheet_240101, Sheet_D240101, Sheet_AB}

\* number of data rows of a sheet of the reference workbook: sheet AB holds a
\* header and nothing else
TlfSheetRowCount(sheet) == IF sheet = Sheet_AB THEN 0 ELSE Len(sheet)

\* pd.DataFrame(): no columns and no rows (line 173)
EmptyFrame == [columns |-> <<>>, rows |-> <<>>]

\* no worksheet has been written
NoWorksheet == [written |-> FALSE]

(***************************************************************************)
(* Initial values of the parts a specification does not run.               *)
(***************************************************************************)
SheetIdle ==
    /\ tlf_df = EmptyFrame
    /\ gl_df = EmptyFrame
    /\ ws = NoWorksheet

GLIdle ==
    /\ zip_walk = <<>>
    /\ tlf_path = NoPath
    /\ source_files = <<>>
    /\ sheet_names = {}
    /\ files_to_process = <<>>
    /\ item_idx = 0
    /\ book = <<>>
    /\ reads = <<>>
    /\ printed = <<>>
    /\ ret = NotReturned
    /\ ui = <<>>

MergeIdle ==
    /\ workbook = <<>>
    /\ merge_ret = MergeNotReturned
    /\ merge_ui = <<>>

AppIdle ==
    /\ data_frame = "None"
    /\ query_pages = <<>>
    /\ active_page_id = 0
    /\ page_selector_id = 0
    /\ is_switching_page = FALSE
    /\ run_id = 0
    /\ uuid_count = 0
    /\ toast = "None"
    /\ last_call = NoCall
    /\ sent = None
    /\ error = "None"

(***************************************************************************)
(* SpecPick: pick_latest_files_by_duplicate_d_date on any list of names.   *)
(***************************************************************************)
InitPick ==
    /\ pc = "pick_call"
    /\ source_files \in SeqsUpTo(NamePool, MaxFiles)
    /\ zip_walk = <<>>
    /\ tlf_path = NoPath
    /\ sheet_names = {}
    /\ files_to_process = <<>>
    /\ item_idx = 0
    /\ book = <<>>
    /\ reads = <<>>
    /\ printed = <<>>
    /\ ret = NotReturned
    /\ ui = <<>>
    /\ SheetIdle
    /\ MergeIdle
    /\ AppIdle

PickCall ==
    /\ pc = "pick_call"
    /\ files_to_process' = pick_latest_files_by_duplicate_d_date(<<>>, source_files)
    /\ pc' = "pick_return"
    /\ UNCHANGED <<zip_walk, tlf_path, source_files, sheet_names, item_idx, book,
                   reads, printed, ret, ui>>
    /\ UNCHANGED <<sheetVars, mergeVars, appVars>>

NextPick == PickCall

SpecPick == InitPick /\ [][NextPick]_vars

\* ---- C1 ----
C1_Extensions ==
    { <<".", "c", "s", "v">>, <<".", "t", "r", "f">>, <<".", "t", "x", "t">>,
      <<".", "x", "l", "s">>, <<".", "x", "l", "s", "x">> }

C1_Supported(fn) ==
    \E e \in C1_Extensions :
        Len(e) <= Len(fn) /\ Lower(Slice(fn, Len(fn) - Len(e), Len(fn))) = e

C1_EntriesWith(d) == {i \in DOMAIN files_to_process : files_to_process[i].d_date = d}

\* C1: the result of pick_latest_files_by_duplicate_d_date holds at most one
\* entry per D-date, exactly one entry for every D-date of a listed file with
\* a supported extension, and no file with an unsupported extension.
C1_OneEntryPerDDate ==
    pc = "pick_return" =>
        /\ \A i \in DOMAIN files_to_process :
              files_to_process[i].d_date # None =>
                  Cardinality(C1_EntriesWith(files_to_process[i].d_date)) = 1
        /\ \A fn \in Range(source_files) :
              (C1_Supported(fn) /\ DDateOf(fn) # None) =>
                  Cardinality(C1_EntriesWith(DDateOf(fn))) = 1
        /\ \A i \in DOMAIN files_to_process :
              /\ C1_Supported(files_to_process[i].file.name)
              /\ files_to_process[i].file.name \in Range(source_files)

\* two supported files share a D-date, an unsupported file is listed too
C1_Witness ==
    /\ pc = "pick_return"
    /\ source_files = <<Name_D1_NoJV, Name_D2_Md, Name_Lower_D1>>
    /\ Len(files_to_process) = 1

\* ---- C2 ----
\* the 8 digits following JV, read as a number; -1 for a name without them
C2_JV8(fn) == IF JVFullOf(fn) = None THEN -1 ELSE ToInt(JVFullOf(fn))

C2_Rivals(d) == {fn \in Range(source_files) : C1_Supported(fn) /\ DDateOf(fn) = d}

\* C2: among the listed files sharing a D-date, the one kept has the greatest
\* JV token (the 8 digits after JV read as a number; absent loses).
C2_KeepsGreatestJV ==
    pc = "pick_return" =>
        \A i \in DOMAIN files_to_process :
            files_to_process[i].d_date # None =>
                \A fn \in C2_Rivals(files_to_process[i].d_date) :
                    C2_JV8(fn) <= C2_JV8(files_to_process[i].file.name)

(***************************************************************************)
(* SpecGL: one click on "Process Files" of gen_gl.py.                      *)
(***************************************************************************)
\* lines 431-432
IsSkipped(e) ==
    \/ StartsWith(e.name, <<".">>)
    \/ \E i \in DOMAIN e.dir : Contains(e.dir[i], MacOSXLetters)

\* line 436
IsTLFName(file) == Contains(file, TLFLetters)

\* what line 439 appends to source_files: the bare name
SourceFileEntry(e) == e.name

RECURSIVE IdentifyFiles(_, _)
IdentifyFiles(walk, acc) ==
    IF walk = <<>> THEN acc
    ELSE LET e == Head(walk)
             full_path == PathJoin(e.dir, e.name)
         IN  IdentifyFiles(Tail(walk),
                 IF IsSkipped(e) THEN acc
                 ELSE IF IsTLFName(e.name) THEN [acc EXCEPT !.tlf_path = full_path]
                 ELSE [acc EXCEPT !.source_files = Append(@, SourceFileEntry(e))])

InitGL ==
    /\ pc = "uploaded"
    /\ zip_walk \in ZipWalks
    /\ tlf_path = NoPath
    /\ source_files = <<>>
    /\ sheet_names = {}
    /\ files_to_process = <<>>
    /\ item_idx = 0
    /\ book = <<>>
    /\ reads = <<>>
    /\ printed = <<>>
    /\ ret = NotReturned
    /\ ui = <<>>
    /\ SheetIdle
    /\ MergeIdle
    /\ AppIdle

\* lines 416-439: extract the ZIP and identify the files
ClickProcess ==
    /\ pc = "uploaded"
    /\ LET found == IdentifyFiles(zip_walk, [tlf_path |-> NoPath, source_files |-> <<>>])
       IN  /\ tlf_path' = found.tlf_path
           /\ source_files' = found.source_files
    /\ pc' = "identified"
    /\ UNCHANGED <<zip_walk, sheet_names, files_to_process, item_idx, book, reads,
                   printed, ret, ui>>
    /\ UNCHANGED <<sheetVars, mergeVars, appVars>>

\* lines 442-443
ShowNoTLF ==
    /\ pc = "identified"
    /\ tlf_path = NoPath
    /\ ui' = <<"error_no_tlf">>
    /\ pc' = "done"
    /\ UNCHANGED <<zip_walk, tlf_path, source_files, sheet_names, files_to_process,
                   item_idx, book, reads, printed, ret>>
    /\ UNCHANGED <<sheetVars, mergeVars, appVars>>

\* lines 444-445
ShowNoSource ==
    /\ pc = "identified"
    /\ tlf_path # NoPath
    /\ source_files = <<>>
    /\ ui' = <<"error_no_source">>
    /\ pc' = "done"
    /\ UNCHANGED <<zip_walk, tlf_path, source_files, sheet_names, files_to_process,
                   item_idx, book, reads, printed, ret>>
    /\ UNCHANGED <<sheetVars, mergeVars, appVars>>

\* a guard that forgets the source files
MayInvoke_WithoutSource == tlf_path # NoPath

\* the guard of the else branch of line 446
MayInvoke == tlf_path # NoPath /\ source_files # <<>>

\* lines 446-450 and 136-137: process_data_in_memory is called and
\* pd.ExcelFile(tlf_path) raises, which line 403 catches
OpenTLFRaises ==
    /\ pc = "identified"
    /\ MayInvoke
    /\ ui' = <<"info_tlf", "info_sources">>
    /\ ret' = [returned |-> TRUE, has_excel |-> FALSE, pages |-> <<>>,
               error_msg |-> "error_reading_tlf"]
    /\ pc' = "returned"
    /\ UNCHANGED <<zip_walk, tlf_path, source_files, sheet_names, files_to_process,
                   item_idx, book, reads, printed>>
    /\ UNCHANGED <<sheetVars, mergeVars, appVars>>

\* lines 446-450 and 136-145: process_data_in_memory is called, the reference
\* workbook opens, the source files are filtered and the writer is created
OpenTLF ==
    /\ pc = "identified"
    /\ MayInvoke
    /\ ui' = <<"info_tlf", "info_sources">>
    /\ \E names \in SUBSET SheetPool : sheet_names' = names
    /\ LET picked == pick_latest_files_by_duplicate_d_date(RootDir, source_files)
       IN  /\ files_to_process' = picked
           /\ IF picked = <<>>
              THEN /\ ret' = [returned |-> TRUE, has_excel |-> FALSE, pages |-> <<>>,
                              error_msg |-> "no_valid_data_file"]
                   /\ pc' = "returned"
                   /\ item_idx' = item_idx
              ELSE /\ ret' = ret
                   /\ pc' = "loop"
                   /\ item_idx' = 1
    /\ book' = <<>>
    /\ UNCHANGED <<zip_walk, tlf_path, source_files, reads, printed>>
    /\ UNCHANGED <<sheetVars, mergeVars, appVars>>

SheetNamesOf(b) == {b[i].name : i \in DOMAIN b}

\* os.path exists for a path of the temporary folder: a file was extracted there
Extracted(path) == \E i \in DOMAIN zip_walk : zip_walk[i] = path

\* What the try block of lines 171-397 may do with an item. The file at
\* file_path decides: a missing file makes the read of lines 190-197 raise; a
\* file that is there may load and write ("ok"), may fail to load (a malformed
\* table, a missing column: lines 175-217), or may fail while its tables are
\* written to the sheet created at line 221 (lines 238-395).
Outcomes(file_path) ==
    IF Extracted(file_path) THEN {"ok", "raise_on_load", "raise_on_write"}
    ELSE {"raise_on_load"}

\* the sheet exists from line 221 on, whatever follows
PageIsCreated(outcome) == outcome # "raise_on_load"

\* lines 146-398: one iteration of the loop over files_to_process
ProcessItem ==
    /\ pc = "loop"
    /\ item_idx <= Len(files_to_process)
    /\ LET item == files_to_process[item_idx]
           file_path == item.file
           filename == file_path.name
           tlf_sheet_to_use == TlfSheetToUse(TlfLookupCandidates(item), sheet_names)
           tlf_rows == IF tlf_sheet_to_use = None THEN 0
                       ELSE TlfSheetRowCount(tlf_sheet_to_use)
           target_sheet_name == make_unique_sheet_name(SheetNamesOf(book),
                                                       DesiredSheetName(item))
       IN  \E outcome \in Outcomes(file_path) :
              /\ reads' = Append(reads, [file |-> file_path,
                                         tlf_sheet |-> tlf_sheet_to_use,
                                         tlf_rows |-> tlf_rows,
                                         outcome |-> outcome])
              /\ book' = IF PageIsCreated(outcome)
                         THEN Append(book, [name |-> target_sheet_name,
                                            file |-> file_path,
                                            complete |-> (outcome = "ok"),
                                            tlf_panel |-> (outcome = "ok" /\ tlf_rows > 0)])
                         ELSE book
              /\ printed' = IF outcome = "ok" THEN printed ELSE Append(printed, filename)
    /\ item_idx' = item_idx + 1
    /\ UNCHANGED <<pc, zip_walk, tlf_path, source_files, sheet_names, files_to_process,
                   ret, ui>>
    /\ UNCHANGED <<sheetVars, mergeVars, appVars>>

\* lines 400-401
DropDefaultSheet(b) ==
    IF DefaultSheetName \in SheetNamesOf(b) /\ Len(b) > 1
    THEN LET k == CHOOSE i \in DOMAIN b : b[i].name = DefaultSheetName
         IN  [i \in 1..(Len(b) - 1) |-> IF i < k THEN b[i] ELSE b[i + 1]]
    ELSE b

\* leaving the with block of line 145 saves the workbook, and a workbook
\* without any sheet cannot be saved: the writer raises and line 403 catches it
SaveRaises(b) == b = <<>>

\* lines 400-407: the loop is over, the writer is closed, the function returns
CloseWriter ==
    /\ pc = "loop"
    /\ item_idx > Len(files_to_process)
    /\ book' = DropDefaultSheet(book)
    /\ ret' = IF SaveRaises(book')
              THEN [returned |-> TRUE, has_excel |-> FALSE, pages |-> <<>>,
                    error_msg |-> "error_reading_tlf"]
              ELSE [returned |-> TRUE, has_excel |-> TRUE, pages |-> book',
                    error_msg |-> "None"]
    /\ pc' = "returned"
    /\ UNCHANGED <<zip_walk, tlf_path, source_files, sheet_names, files_to_process,
                   item_idx, reads, printed, ui>>
    /\ UNCHANGED <<sheetVars, mergeVars, appVars>>

\* lines 452-461
ShowResult ==
    /\ pc = "returned"
    /\ ui' = IF ret.error_msg # "None" THEN Append(ui, "error")
             ELSE ui \o <<"success", "download">>
    /\ pc' = "done"
    /\ UNCHANGED <<zip_walk, tlf_path, source_files, sheet_names, files_to_process,
                   item_idx, book, reads, printed, ret>>
    /\ UNCHANGED <<sheetVars, mergeVars, appVars>>

NextGL ==
    \/ ClickProcess
    \/ ShowNoTLF
    \/ ShowNoSource
    \/ OpenTLFRaises
    \/ OpenTLF
    \/ ProcessItem
    \/ CloseWriter
    \/ ShowResult

SpecGL == InitGL /\ [][NextGL]_vars

\* process_data_in_memory has been called
Invoked == pc \in {"loop", "returned"} \/ ret.returned

\* the loop of line 146 was entered and is over
LoopIsOver == ret.returned /\ files_to_process # <<>>

\* ---- C3 ----
\* C3: when the processing of selected files raises, those files are skipped
\* and logged, every selected file is still gone through, and the function
\* returns the workbook with error message None, whichever files fail.
C3_SkipLogAndReturnWorkbook ==
    (LoopIsOver /\ printed # <<>>) =>
        /\ Len(reads) = Len(files_to_process)
        /\ \A i \in DOMAIN reads :
              reads[i].outcome # "ok" => reads[i].file.name \in Range(printed)
        /\ ret.has_excel
        /\ ret.error_msg = "None"

\* ---- C6 ----
C6_PagesOf(path) == {k \in DOMAIN ret.pages : ret.pages[k].file = path}

\* C6: the pages of the returned workbook are, one each, the selected files
\* whose processing completed; a file whose processing raised has no page.
C6_OnePagePerCompletedFile ==
    (ret.returned /\ ret.has_excel) =>
        \A i \in DOMAIN reads :
            IF reads[i].outcome = "ok"
            THEN Cardinality(C6_PagesOf(reads[i].file)) = 1
            ELSE C6_PagesOf(reads[i].file) = {}

\* ---- C7 ----
\* the sheet the claim names for an item, given the sheets of the workbook
C7_Expected(item, names) ==
    LET d == item.d_date
        fallback == FallbackLookupName(item.file.name)
    IN  IF d # None /\ d \in names THEN d
        ELSE IF d # None /\ (<<"D">> \o d) \in names THEN <<"D">> \o d
        ELSE IF fallback # <<>> /\ fallback \in names THEN fallback
        ELSE None

\* C7: the reference sheet used for a file is the first existing one among
\* d, "D"+d and the fallback name (only the fallback for a file without
\* D-date); with no existing candidate the file is still processed, with an
\* empty reference table and no TLF panel.
C7_FirstExistingCandidate ==
    \A i \in DOMAIN reads :
        /\ reads[i].tlf_sheet = C7_Expected(files_to_process[i], sheet_names)
        /\ reads[i].tlf_sheet = None =>
              /\ reads[i].tlf_rows = 0
              /\ \A k \in DOMAIN book :
                    book[k].file = reads[i].file => ~book[k].tlf_panel

\* only the third candidate of a file with a D-date exists, and its page is
\* written
C7_Witness ==
    /\ sheet_names = {Sheet_AB}
    /\ \E i \in DOMAIN reads :
          /\ files_to_process[i].d_date = Sheet_240101
          /\ reads[i].tlf_sheet = Sheet_AB
          /\ reads[i].outcome = "ok"
          /\ \E k \in DOMAIN book : book[k].file = reads[i].file /\ book[k].complete

\* no candidate exists, and the page of the file is written without TLF panel
C7_WitnessNoCandidate ==
    \E i \in DOMAIN reads :
        /\ reads[i].tlf_sheet = None
        /\ reads[i].outcome = "ok"
        /\ \E k \in DOMAIN book :
              book[k].file = reads[i].file /\ book[k].complete /\ ~book[k].tlf_panel

\* ---- C8 ----
\* the files of the ZIP that lines 431-439 classify as source files
C8_SourceEntries ==
    {zip_walk[i] : i \in {j \in DOMAIN zip_walk :
                            ~IsSkipped(zip_walk[j]) /\ ~IsTLFName(zip_walk[j].name)}}

\* C8: every file classified as source, at any depth, is read from the path
\* where it was extracted (stated for the files the filter of line 140 keeps).
C8_ReadWhereExtracted ==
    LoopIsOver =>
        \A e \in C8_SourceEntries :
            (\E i \in DOMAIN files_to_process : files_to_process[i].file.name = e.name)
                => \E i \in DOMAIN reads : reads[i].file = e

\* ---- C9 ----
C9_HasTLFName == \E i \in DOMAIN zip_walk : Contains(zip_walk[i].name, TLFLetters)

\* C9: process_data_in_memory is invoked only when the ZIP holds a file whose
\* name contains TLF and a file classified as source; when no name contains
\* TLF, or there is no source file, an error is shown, nothing is processed
\* and no download is offered.
C9_InvokedOnlyWithTLFAndSource ==
    /\ Invoked => (C9_HasTLFName /\ C8_SourceEntries # {})
    /\ (pc = "done" /\ (~C9_HasTLFName \/ C8_SourceEntries = {})) =>
          /\ ui \in {<<"error_no_tlf">>, <<"error_no_source">>}
          /\ ~Invoked
          /\ "download" \notin Range(ui)

\* a ZIP with a reference file and nothing else
C9_Witness ==
    /\ pc = "done"
    /\ C9_HasTLFName
    /\ C8_SourceEntries = {}
    /\ ui = <<"error_no_source">>

(***************************************************************************)
(* Gen_database.py: merge_excel_to_parquet_bytes                           *)
(***************************************************************************)
\* a cell pd.read_excel(dtype=str) leaves empty
NaN == "NaN"

UnnamedPrefix == <<"U", "n", "n", "a", "m", "e", "d">>

\* line 28: df.columns.astype(str).str.contains(r"^Unnamed")
IsUnnamedColumn(c) == StartsWith(c, UnnamedPrefix)

\* positions of the columns line 28 keeps, in order
RECURSIVE KeptPositions(_, _)
KeptPositions(columns, from) ==
    IF from > Len(columns) THEN <<>>
    ELSE (IF IsUnnamedColumn(columns[from]) THEN <<>> ELSE <<from>>)
         \o KeptPositions(columns, from + 1)

\* a row that loses a cell
RowIsDropped_HowAny(row) == \E i \in DOMAIN row : row[i] = NaN

\* line 31: dropna(how="all") drops the rows without any value
RowIsDropped(row) == \A i \in DOMAIN row : row[i] = NaN

RECURSIVE DropNa(_)
DropNa(rows) ==
    IF rows = <<>> THEN <<>>
    ELSE (IF RowIsDropped(Head(rows)) THEN <<>> ELSE <<Head(rows)>>) \o DropNa(Tail(rows))

\* lines 28-31 on one sheet
CleanSheet(sheet) ==
    LET kept == KeptPositions(sheet.columns, 1)
    IN  [columns |-> [k \in DOMAIN kept |-> sheet.columns[kept[k]]],
         rows |-> DropNa([r \in DOMAIN sheet.rows |->
                             [k \in DOMAIN kept |-> sheet.rows[r][kept[k]]]])]

\* lines 35-36: the frames that go into the concat
RECURSIVE NonEmptyFrames(_)
NonEmptyFrames(frames) ==
    IF frames = <<>> THEN <<>>
    ELSE (IF Len(Head(frames).rows) > 0 THEN <<Head(frames)>> ELSE <<>>)
         \o NonEmptyFrames(Tail(frames))

\* the columns of pd.concat: every column, in the order of first appearance
RECURSIVE AppendNew(_, _)
AppendNew(columns, more) ==
    IF more = <<>> THEN columns
    ELSE AppendNew(IF Head(more) \in Range(columns) THEN columns
                   ELSE Append(columns, Head(more)), Tail(more))

RECURSIVE ConcatColumns(_, _)
ConcatColumns(frames, columns) ==
    IF frames = <<>> THEN columns
    ELSE ConcatColumns(Tail(frames), AppendNew(columns, Head(frames).columns))

\* a row of a frame over the columns of the concat: NaN where it has no column
AlignRow(frame, row, columns) ==
    [k \in DOMAIN columns |->
        IF columns[k] \in Range(frame.columns)
        THEN row[CHOOSE j \in DOMAIN frame.columns : frame.columns[j] = columns[k]]
        ELSE NaN]

RECURSIVE ConcatRows(_, _)
ConcatRows(frames, columns) ==
    IF frames = <<>> THEN <<>>
    ELSE [r \in DOMAIN Head(frames).rows |-> AlignRow(Head(frames), Head(frames).rows[r], columns)]
         \o ConcatRows(Tail(frames), columns)

\* line 41: pd.concat(all_data_frames, ignore_index=True)
Concat(frames) ==
    [columns |-> ConcatColumns(frames, <<>>),
     rows |-> ConcatRows(frames, ConcatColumns(frames, <<>>))]

\* line 38: if not all_data_frames
NoData_AnySheetEmpty(frames) == \E i \in DOMAIN frames : Len(frames[i].rows) = 0
NoData(frames) == NonEmptyFrames(frames) = <<>>

merge_excel_to_parquet_bytes(all_sheets) ==
    LET cleaned == [i \in DOMAIN all_sheets |-> CleanSheet(all_sheets[i])]
        per_sheet_rows == [i \in DOMAIN all_sheets |-> Len(cleaned[i].rows)]
        merged_df == Concat(NonEmptyFrames(cleaned))
    IN  IF NoData(cleaned)
        THEN [returned |-> TRUE, raised |-> "ValueError_no_data", has_bytes |-> FALSE,
              has_stats |-> FALSE,
              merged |-> [columns |-> <<>>, rows |-> <<>>],
              stats |-> [sheet_count |-> 0, merged_rows |-> 0, per_sheet_rows |-> <<>>]]
        ELSE [returned |-> TRUE, raised |-> "None", has_bytes |-> TRUE,
              has_stats |-> TRUE,
              merged |-> merged_df,
              stats |-> [sheet_count |-> Len(all_sheets),
                         merged_rows |-> Len(merged_df.rows),
                         per_sheet_rows |-> per_sheet_rows]]

(***************************************************************************)
(* Inputs: the uploaded workbook, bounded.                                 *)
(***************************************************************************)
\* most sheets and data rows, taken together, of an uploaded workbook
MaxCells == 4

ColA == <<"A">>
ColB == <<"B">>
ColUnnamed0 == UnnamedPrefix \o <<":", " ", "0">>
ColUnnamed1 == UnnamedPrefix \o <<":", " ", "1">>
ColLowerUnnamed == <<"u", "n", "n", "a", "m", "e", "d">>

\* the header rows a sheet may have
ColumnLists == { <<ColA, ColUnnamed1>>, <<ColB, ColA>>, <<ColUnnamed0, ColLowerUnnamed>> }

CellValues == {NaN, "a"}

\* the sheets with n data rows
SheetsWithRows(n) ==
    {[columns |-> c, rows |-> r] :
        c \in ColumnLists, r \in [1..n -> [1..2 -> CellValues]]}

\* the workbooks whose sheets and rows count n at most
RECURSIVE Workbooks(_)
Workbooks(n) ==
    {<<>>} \cup
    UNION {{<<sh>> \o rest : sh \in SheetsWithRows(k - 1), rest \in Workbooks(n - k)} :
              k \in 1..n}

(***************************************************************************)
(* SpecMerge: one click on the run button of Gen_database.py.              *)
(***************************************************************************)
InitMerge ==
    /\ workbook \in Workbooks(MaxCells) \ {<<>>}
    /\ merge_ret = MergeNotReturned
    /\ merge_ui = <<>>
    /\ pc = "uploaded"
    /\ GLIdle
    /\ SheetIdle
    /\ AppIdle

\* lines 70-73, the workbook is read: the function runs to its return or raise
MergeCall ==
    /\ pc = "uploaded"
    /\ merge_ret' = merge_excel_to_parquet_bytes(workbook)
    /\ pc' = "returned"
    /\ UNCHANGED <<workbook, merge_ui>>
    /\ UNCHANGED <<zip_walk, tlf_path, source_files, sheet_names, files_to_process,
                   item_idx, book, reads, printed, ret, ui>>
    /\ UNCHANGED <<sheetVars, appVars>>

\* lines 70-73 and 21: pd.read_excel raises on an upload it cannot read
MergeReadRaises ==
    /\ pc = "uploaded"
    /\ merge_ret' = [MergeNotReturned EXCEPT !.returned = TRUE, !.raised = "read_error"]
    /\ pc' = "returned"
    /\ UNCHANGED <<workbook, merge_ui>>
    /\ UNCHANGED <<zip_walk, tlf_path, source_files, sheet_names, files_to_process,
                   item_idx, book, reads, printed, ret, ui>>
    /\ UNCHANGED <<sheetVars, appVars>>

\* lines 75-102: the summary and the download, or the error
MergeShow ==
    /\ pc = "returned"
    /\ \E preview \in BOOLEAN :
          merge_ui' = IF merge_ret.raised # "None" THEN <<"error", "exception">>
                      ELSE <<"success", "summary", "download">>
                           \o (IF preview THEN <<"preview">> ELSE <<>>)
    /\ pc' = "done"
    /\ UNCHANGED <<workbook, merge_ret>>
    /\ UNCHANGED <<zip_walk, tlf_path, source_files, sheet_names, files_to_process,
                   item_idx, book, reads, printed, ret, ui>>
    /\ UNCHANGED <<sheetVars, appVars>>

NextMerge ==
    \/ MergeCall
    \/ MergeReadRaises
    \/ MergeShow

SpecMerge == InitMerge /\ [][NextMerge]_vars

\* ---- C4 ----
C4_IsNamed(c) == ~StartsWith(c, <<"U", "n", "n", "a", "m", "e", "d">>)

\* row r of the sheet has a value in a column that is not an Unnamed one
C4_HasValue(sheet, r) ==
    \E j \in DOMAIN sheet.columns :
        C4_IsNamed(sheet.columns[j]) /\ sheet.rows[r][j] # NaN

\* the rows the claim keeps, as <<sheet, row>>, sheet by sheet and row by row
RECURSIVE C4_KeptFrom(_, _)
C4_KeptFrom(i, r) ==
    IF i > Len(workbook) THEN <<>>
    ELSE IF r > Len(workbook[i].rows) THEN C4_KeptFrom(i + 1, 1)
    ELSE (IF C4_HasValue(workbook[i], r) THEN << <<i, r>> >> ELSE <<>>)
         \o C4_KeptFrom(i, r + 1)

C4_Kept == C4_KeptFrom(1, 1)

RECURSIVE C4_Sum(_)
C4_Sum(q) == IF q = <<>> THEN 0 ELSE Head(q) + C4_Sum(Tail(q))

\* C4: the merged table holds, sheet by sheet and row by row, exactly the
\* rows with a value in a column that is not an Unnamed one; no Unnamed column
\* is in the output; merged_rows is the sum of per_sheet_rows.
C4_MergedRowsInOrder ==
    (merge_ret.returned /\ merge_ret.raised = "None") =>
        LET out == merge_ret.merged
        IN  /\ Len(out.rows) = Len(C4_Kept)
            /\ \A k \in DOMAIN out.rows :
                  LET sheet == workbook[C4_Kept[k][1]]
                      row == sheet.rows[C4_Kept[k][2]]
                  IN  /\ \A j \in DOMAIN sheet.columns :
                            C4_IsNamed(sheet.columns[j]) =>
                                \E c \in DOMAIN out.columns :
                                    /\ out.columns[c] = sheet.columns[j]
                                    /\ out.rows[k][c] = row[j]
                      /\ \A c \in DOMAIN out.columns :
                            out.columns[c] \notin Range(sheet.columns) =>
                                out.rows[k][c] = NaN
            /\ \A c \in DOMAIN out.columns : C4_IsNamed(out.columns[c])
            /\ \A c, d \in DOMAIN out.columns : c # d => out.columns[c] # out.columns[d]
            /\ merge_ret.stats.merged_rows = C4_Sum(merge_ret.stats.per_sheet_rows)
            /\ merge_ret.stats.merged_rows = Len(out.rows)

\* two sheets with different columns, one with an Unnamed column, each with a
\* row that stays although it has an empty cell
C4_Witness ==
    /\ merge_ret.returned
    /\ merge_ret.raised = "None"
    /\ Len(workbook) = 2
    /\ workbook[1].columns = <<ColA, ColUnnamed1>>
    /\ workbook[2].columns = <<ColB, ColA>>
    /\ workbook[2].rows = << <<NaN, "a">> >>
    /\ merge_ret.stats.per_sheet_rows = <<1, 1>>
    /\ Len(merge_ret.merged.columns) = 2

\* ---- C10 ----
C10_EverySheetEmpty ==
    \A i \in DOMAIN workbook : \A r \in DOMAIN workbook[i].rows :
        ~C4_HasValue(workbook[i], r)

\* C10: on a workbook it can read, merge_excel_to_parquet_bytes raises its
\* ValueError, without bytes and statistics, exactly when every sheet has no
\* row left after cleaning; the page then shows the error and no download.
C10_RaisesIffNoData ==
    (merge_ret.returned /\ merge_ret.raised # "read_error") =>
        /\ (merge_ret.raised = "ValueError_no_data") <=> C10_EverySheetEmpty
        /\ merge_ret.raised = "ValueError_no_data" =>
              (~merge_ret.has_bytes /\ ~merge_ret.has_stats)
        /\ (pc = "done" /\ merge_ret.raised = "ValueError_no_data") =>
              ("error" \in Range(merge_ui) /\ "download" \notin Range(merge_ui))

\* two sheets that have rows, none of which stays, and the error is shown
C10_Witness ==
    /\ pc = "done"
    /\ merge_ret.raised = "ValueError_no_data"
    /\ Len(workbook) = 2
    /\ \A i \in DOMAIN workbook : Len(workbook[i].rows) = 1
    /\ \E i \in DOMAIN workbook : \E j \in 1..2 : workbook[i].rows[1][j] # NaN
    /\ merge_ui = <<"error", "exception">>

(***************************************************************************)
(* app.py: the session state and the page helpers.                         *)
(***************************************************************************)
\* most pages of a session (line 65)
MaxPages == 10

\* most uuid4() values drawn in one run of the model
MaxUuids == 11

\* most page ids of a run that no longer name a page (removed, or of a
\* session that was cleared)
MaxRetired == 2

Retired == uuid_count - Len(query_pages)

\* f"Query {n}"
QueryTitle(n) == <<"Q", "u", "e", "r", "y", " ">> \o IntToStr(n)

\* "SELECT * FROM database"
DefaultQuery ==
    <<"S", "E", "L", "E", "C", "T", " ", "*", " ", "F", "R", "O", "M", " ",
      "d", "a", "t", "a", "b", "a", "s", "e">>

\* last_result of a page without a result: None
NoResult == [is_none |-> TRUE, text |-> <<>>, rows |-> 0]

\* lines 24-29 and 70-75
NewPage(id, n) ==
    [id |-> id, title |-> QueryTitle(n), query |-> DefaultQuery,
     last_result |-> NoResult]

PageIds == {query_pages[i].id : i \in DOMAIN query_pages}

\* a rerun in which the form was not submitted: lines 205-225 are skipped
NoRunOutput ==
    /\ sent' = None
    /\ error' = "None"

\* lines 19-42: the session state of a new session
InitApp ==
    /\ data_frame = "None"
    /\ query_pages = <<NewPage(1, 1)>>
    /\ active_page_id = 1
    /\ page_selector_id = 1
    /\ is_switching_page = FALSE
    /\ run_id = 0
    /\ uuid_count = 1
    /\ toast = "None"
    /\ last_call = NoCall
    /\ pc = "app"
    /\ sent = None
    /\ error = "None"
    /\ GLIdle
    /\ SheetIdle
    /\ MergeIdle

\* lines 112-116
UploadFile ==
    /\ data_frame = "None"
    /\ data_frame' = "df"
    /\ UNCHANGED <<query_pages, active_page_id, page_selector_id, is_switching_page,
                   run_id, uuid_count, toast, last_call>>
    /\ NoRunOutput
    /\ UNCHANGED <<glVars, sheetVars, mergeVars>>

\* lines 123-125, then lines 19-42 of the rerun: a new session
UploadNewFile ==
    /\ data_frame # "None"
    /\ uuid_count < MaxUuids
    /\ uuid_count <= MaxRetired
    /\ data_frame' = "None"
    /\ query_pages' = <<NewPage(uuid_count + 1, 1)>>
    /\ active_page_id' = uuid_count + 1
    /\ page_selector_id' = uuid_count + 1
    /\ is_switching_page' = FALSE
    /\ run_id' = 0
    /\ uuid_count' = uuid_count + 1
    /\ toast' = "None"
    /\ last_call' = NoCall
    /\ NoRunOutput
    /\ UNCHANGED <<glVars, sheetVars, mergeVars>>

\* a limit that lets one page more in
MaxPagesReached_OffByOne(n) == n > MaxPages

\* line 65
MaxPagesReached(n) == n >= MaxPages

\* lines 162-164 and 64-77: the add button
AddNewPage ==
    /\ data_frame # "None"
    /\ last_call' = [op |-> "add_new_page", early |-> MaxPagesReached(Len(query_pages))]
    /\ IF MaxPagesReached(Len(query_pages))
       THEN /\ toast' = "max_pages"
            /\ UNCHANGED <<query_pages, active_page_id, page_selector_id,
                           is_switching_page, uuid_count>>
       ELSE /\ uuid_count < MaxUuids
            /\ query_pages' = Append(query_pages,
                                     NewPage(uuid_count + 1, Len(query_pages) + 1))
            /\ active_page_id' = uuid_count + 1
            /\ page_selector_id' = uuid_count + 1
            /\ is_switching_page' = TRUE
            /\ uuid_count' = uuid_count + 1
            /\ toast' = "None"
    /\ UNCHANGED <<data_frame, run_id>>
    /\ NoRunOutput
    /\ UNCHANGED <<glVars, sheetVars, mergeVars>>

\* pages.pop(idx)
Pop(pages, idx) ==
    [i \in 1..(Len(pages) - 1) |-> IF i < idx THEN pages[i] ELSE pages[i + 1]]

\* line 82
IsLastPage(pages) == Len(pages) <= 1

\* the first page becomes active, wherever the removed page stood
NextActiveIndex_AlwaysFirst(idx) == 1

\* line 89: max(0, idx - 1), positions counted from 1 here
NextActiveIndex(idx) == IF idx - 1 < 1 THEN 1 ELSE idx - 1

\* lines 168-169 and 80-90: remove_page(page_id) for the active page. The
\* button is disabled on the last page; the function returns early by itself.
RemovePage ==
    /\ data_frame # "None"
    /\ last_call' = [op |-> "remove_page", early |-> IsLastPage(query_pages)]
    /\ toast' = "None"
    /\ IF IsLastPage(query_pages)
       THEN UNCHANGED <<query_pages, active_page_id, page_selector_id, is_switching_page>>
       ELSE LET page_id == active_page_id
                idx == CHOOSE i \in DOMAIN query_pages : query_pages[i].id = page_id
                pages == Pop(query_pages, idx)
                next == pages[NextActiveIndex(idx)].id
            IN  /\ Retired < MaxRetired
                /\ query_pages' = pages
                /\ active_page_id' = next
                /\ page_selector_id' = next
                /\ is_switching_page' = TRUE
    /\ UNCHANGED <<data_frame, run_id, uuid_count>>
    /\ NoRunOutput
    /\ UNCHANGED <<glVars, sheetVars, mergeVars>>

\* lines 134-142 and 100-102: another page is picked in the radio
SelectPage ==
    /\ data_frame # "None"
    /\ \E pid \in PageIds \ {active_page_id} :
          /\ page_selector_id' = pid
          /\ active_page_id' = pid
    /\ is_switching_page' = TRUE
    /\ UNCHANGED <<data_frame, query_pages, run_id, uuid_count, toast, last_call>>
    /\ NoRunOutput
    /\ UNCHANGED <<glVars, sheetVars, mergeVars>>

NextApp ==
    \/ UploadFile
    \/ UploadNewFile
    \/ AddNewPage
    \/ RemovePage
    \/ SelectPage

SpecApp == InitApp /\ [][NextApp]_vars

\* ---- C5 ----
\* C5: after any sequence of add_new_page and remove_page calls the number of
\* query pages is at least 1 and at most 10; add_new_page with 10 pages and
\* remove_page with 1 page leave the page list unchanged.
C5_PageCountWithinBounds ==
    /\ [](Len(query_pages) >= 1 /\ Len(query_pages) <= 10)
    /\ [][(AddNewPage /\ Len(query_pages) = 10) => query_pages' = query_pages]_vars
    /\ [][(RemovePage /\ Len(query_pages) = 1) => query_pages' = query_pages]_vars

\* add_new_page found 10 pages and left 10
C5_Witness ==
    /\ last_call = [op |-> "add_new_page", early |-> TRUE]
    /\ Len(query_pages) = 10
    /\ toast = "max_pages"

\* remove_page found 1 page and left it
C5_WitnessRemove ==
    /\ last_call = [op |-> "remove_page", early |-> TRUE]
    /\ Len(query_pages) = 1
    /\ uuid_count > 1

(***************************************************************************)
(* gen_gl.py: one item of the loop of line 146, from the loaded tables to  *)
(* the worksheet (lines 184-186 and 210-395).                              *)
(* A table is a list of column names and a list of rows; a row is a list   *)
(* of cells, one per column.                                               *)
(***************************************************************************)
\* lines 96-98
tlf_reserved_rows == 2
gl_reserved_rows == 10
gap_rows == 3

\* line 99
exclude_tlf_columns == {"from_acct", "to_acct", "auth_branch_from"}

\* line 102
gl_new_headers ==
    <<"RC", "OC", "CH", "Product Code", "Account Code", "Tax", "DR", "CR", "Seq">>

SearchKeyName == "_SearchKey"

\* df.empty
IsEmpty(df) == df.rows = <<>> \/ df.columns = <<>>

\* position of a column, counted from 1 (0: no such column)
ColPos(columns, name) ==
    IF \E p \in DOMAIN columns : columns[p] = name
    THEN CHOOSE p \in DOMAIN columns : columns[p] = name
    ELSE 0

\* df.iloc[:, p - 1]
Column(df, p) == [i \in DOMAIN df.rows |-> df.rows[i][p]]

\* df[name] = values: an existing column is overwritten where it stands, a
\* new one is added on the right
SetColumn(df, name, values) ==
    LET p == ColPos(df.columns, name)
    IN  IF p = 0
        THEN [columns |-> Append(df.columns, name),
              rows |-> [i \in DOMAIN df.rows |-> Append(df.rows[i], values[i])]]
        ELSE [columns |-> df.columns,
              rows |-> [i \in DOMAIN df.rows |->
                           [df.rows[i] EXCEPT ![p] = values[i]]]]

\* df.groupby(col).cumcount(): for each row, the number of earlier rows of
\* its group
cumcount(col) ==
    [i \in DOMAIN col |-> Cardinality({j \in 1..(i - 1) : col[j] = col[i]})]

\* search_col + '|' + (cumcount + 1).astype(str)   (lines 186 and 217)
SearchKeyColumn(col) ==
    LET counts == cumcount(col)
    IN  [i \in DOMAIN col |-> col[i] \o <<"|">> \o IntToStr(counts[i] + 1)]

\* lines 184-186
TlfSearchKeyed(df) ==
    IF ~IsEmpty(df) /\ Len(df.columns) > 8
    THEN LET search_col == [i \in DOMAIN df.rows |-> Strip(df.rows[i][9])]
         IN  SetColumn(df, SearchKeyName, SearchKeyColumn(search_col))
    ELSE df

\* order of two lists of strings, position by position
RECURSIVE KeyLess(_, _)
KeyLess(a, b) ==
    IF a = <<>> \/ b = <<>> THEN FALSE
    ELSE IF Head(a) # Head(b) THEN StrLess(Head(a), Head(b))
    ELSE KeyLess(Tail(a), Tail(b))

\* the values of a row in the columns sorted by
RowSortKey(row, positions) == [i \in DOMAIN positions |-> row[positions[i]]]

\* one row put into a sorted list, after the rows that are not greater
RECURSIVE InsertRow(_, _, _)
InsertRow(sorted, row, positions) ==
    IF sorted = <<>> THEN <<row>>
    ELSE IF KeyLess(RowSortKey(row, positions), RowSortKey(Head(sorted), positions))
         THEN <<row>> \o sorted
         ELSE <<Head(sorted)>> \o InsertRow(Tail(sorted), row, positions)

RECURSIVE SortRows(_, _, _)
SortRows(rows, positions, sorted) ==
    IF rows = <<>> THEN sorted
    ELSE SortRows(Tail(rows), positions, InsertRow(sorted, Head(rows), positions))

\* lines 210-213: gl_df.sort_values(by=valid_sort_cols); rows with equal
\* values keep their order
sort_values(df) ==
    LET cols_to_sort == <<"CH", "RC", "OC", "Product Code">>
        valid_sort_cols == SelectSeq(cols_to_sort, LAMBDA c : ColPos(df.columns, c) # 0)
        positions == [i \in DOMAIN valid_sort_cols |-> ColPos(df.columns, valid_sort_cols[i])]
    IN  IF valid_sort_cols # <<>>
        THEN [columns |-> df.columns, rows |-> SortRows(df.rows, positions, <<>>)]
        ELSE df

\* lines 215-217
AddGlSearchKey(df) ==
    IF ~IsEmpty(df)
    THEN SetColumn(df, SearchKeyName,
                   SearchKeyColumn(Column(df, ColPos(df.columns, "Seq"))))
    ELSE df

\* the key is numbered in the order of the file, the rows are sorted after
GlSearchKeyed_KeyBeforeSort(df) == sort_values(AddGlSearchKey(df))

\* lines 210-217: sorted first, numbered in the sorted order
GlSearchKeyed(df) == AddGlSearchKey(sort_values(df))

\* openpyxl.utils.get_column_letter, for the first 702 columns
Letters ==
    <<"A", "B", "C", "D", "E", "F", "G", "H", "I", "J", "K", "L", "M",
      "N", "O", "P", "Q", "R", "S", "T", "U", "V", "W", "X", "Y", "Z">>

get_column_letter(n) ==
    IF n <= 26 THEN <<Letters[n]>>
    ELSE <<Letters[(n - 1) \div 26], Letters[((n - 1) % 26) + 1]>>

\* lines 225-228
search_ui_start_row == 1
tlf_ui_height == 2 + tlf_reserved_rows
gl_ui_height == 2 + gl_reserved_rows

\* the raw tables start right under the search row and the TLF panel
raw_data_start_row_NoRoomForGlPanel == search_ui_start_row + tlf_ui_height + gap_rows

\* line 228
raw_data_start_row ==
    search_ui_start_row + tlf_ui_height + gap_rows + gl_ui_height + 5

\* lines 231-234: no raw table written
NoRawTable ==
    [present |-> FALSE, label_row |-> 0, header_row |-> 0, data_start |-> 0,
     data_end |-> 0, key_col_letter |-> <<"A">>, columns |-> <<>>, rows |-> <<>>]

\* lines 238-242 and 258-262: the label, then df.to_excel(startrow =
\* current_raw_row - 1, index=False), which puts the header on sheet row
\* startrow + 1 and the data under it, the first column in sheet column A
RawTable(df, current_raw_row) ==
    LET startrow == current_raw_row - 1
    IN  [present |-> TRUE,
         label_row |-> current_raw_row - 1,
         header_row |-> startrow + 1,
         data_start |-> current_raw_row + 1,
         data_end |-> current_raw_row + Len(df.rows),
         key_col_letter |-> get_column_letter(Len(df.columns)),
         columns |-> df.columns,
         rows |-> df.rows]

\* the formula of lines 319-325 and 358-363:
\* =IFERROR(INDEX($c$a:$c$b, MATCH($B$1&"|"&k, $key$a:$key$b, 0)), "")
Formula(col_letter, data_start, data_end, k_value, key_col_letter) ==
    [index_col |-> col_letter, index_start |-> data_start, index_end |-> data_end,
     input_col |-> <<"B">>, input_row |-> search_ui_start_row, k |-> k_value,
     key_col |-> key_col_letter, key_start |-> data_start, key_end |-> data_end]

NoPanel == [present |-> FALSE, title_row |-> 0, header_row |-> 0, headers |-> <<>>,
            rows |-> <<>>]

\* lines 298-301
DisplayCols(columns) ==
    LET shown == SelectSeq(columns,
                           LAMBDA c : c # SearchKeyName /\ c \notin exclude_tlf_columns)
        idx1 == ColPos(shown, "amt_1_full")
        idx2 == ColPos(shown, "resp_byte")
    IN  IF idx1 # 0 /\ idx2 # 0
        THEN [shown EXCEPT ![idx1] = shown[idx2], ![idx2] = shown[idx1]]
        ELSE shown

\* lines 294-332
TlfPanel(raw, report_row) ==
    LET display_cols == DisplayCols(raw.columns)
        data_start_row == report_row + 2
    IN  [present |-> TRUE,
         title_row |-> report_row,
         header_row |-> report_row + 1,
         headers |-> display_cols,
         rows |-> [r \in 1..tlf_reserved_rows |->
                     [row |-> data_start_row + (r - 1),
                      cells |-> [i \in DOMAIN display_cols |->
                                   Formula(get_column_letter(ColPos(raw.columns,
                                                                    display_cols[i])),
                                           raw.data_start, raw.data_end, r,
                                           raw.key_col_letter)]]]]

\* lines 337-372
GlPanel(raw, report_row) ==
    LET data_start_row == report_row + 2
    IN  [present |-> TRUE,
         title_row |-> report_row,
         header_row |-> report_row + 1,
         headers |-> SelectSeq(raw.columns, LAMBDA c : c # SearchKeyName),
         rows |-> [r \in 1..gl_reserved_rows |->
                     [row |-> data_start_row + (r - 1),
                      cells |-> [col_idx \in 1..Len(gl_new_headers) |->
                                   Formula(get_column_letter(col_idx),
                                           raw.data_start, raw.data_end, r,
                                           raw.key_col_letter)]]]]

\* lines 225-372: the worksheet of one item
Worksheet(tlf, gl) ==
    LET raw_tlf == IF ~IsEmpty(tlf) THEN RawTable(tlf, raw_data_start_row)
                   ELSE NoRawTable
        \* line 254
        current_raw_row == IF ~IsEmpty(tlf) THEN raw_data_start_row + Len(tlf.rows) + 4
                           ELSE raw_data_start_row
        raw_gl == IF ~IsEmpty(gl) THEN RawTable(gl, current_raw_row) ELSE NoRawTable
        \* line 291
        report_row == search_ui_start_row + 2
        tlf_panel == IF ~IsEmpty(tlf) THEN TlfPanel(raw_tlf, report_row) ELSE NoPanel
        \* lines 332 and 334
        gl_report_row == (IF ~IsEmpty(tlf) THEN report_row + 2 + tlf_reserved_rows
                          ELSE report_row) + gap_rows
        gl_panel == IF ~IsEmpty(gl) THEN GlPanel(raw_gl, gl_report_row) ELSE NoPanel
    IN  [written |-> TRUE,
         search_row |-> search_ui_start_row,
         raw_tlf |-> raw_tlf,
         raw_gl |-> raw_gl,
         tlf_panel |-> tlf_panel,
         gl_panel |-> gl_panel]

(***************************************************************************)
(* SpecSheet: one item of the loop, for any reference and source table.    *)
(***************************************************************************)
\* most rows of a table
MaxRows == 3

\* values of the search columns: a plain number, and a text that holds '|'
SearchValues == {<<"7">>, <<"7", "|", "1">>}

Filler == <<"x">>

\* the 18 columns read from a reference sheet (line 175), the 9th is searched
TlfHeader ==
    <<"tran_date", "from_acct", "to_acct", "auth_branch_from", "term_id", "tran_code",
      "tran_time", "card_no", "seq_num", "resp_byte", "branch", "region", "type",
      "currency", "amt_1_full", "status", "fee", "ref_no">>

\* a reference sheet whose first used column is itself headed _SearchKey
TlfHeaderWithKeyName == [TlfHeader EXCEPT ![1] = SearchKeyName]

TlfHeaders == {TlfHeader, TlfHeaderWithKeyName}

TlfRow(v) == [p \in 1..Len(TlfHeader) |-> IF p = 9 THEN v ELSE Filler]

\* tlf_df after line 182: no sheet found, or a sheet with any rows
TlfFrames ==
    {EmptyFrame} \cup
    {[columns |-> h, rows |-> [i \in DOMAIN vs |-> TlfRow(vs[i])]] :
        h \in TlfHeaders, vs \in SeqsUpTo(SearchValues, MaxRows)}

\* a row of the source table after line 208: RC, OC, CH, Product Code,
\* Account Code, Tax, DR, CR, Seq
GlRow(ch, v) == <<<<"1">>, <<"1">>, ch, <<"1">>, Filler, Filler, 0, 0, v>>

GlRows == {GlRow(ch, v) : ch \in {<<"1">>, <<"2">>}, v \in SearchValues}

\* gl_df after line 208
GlFrames == {[columns |-> gl_new_headers, rows |-> r] : r \in SeqsUpTo(GlRows, MaxRows)}

InitSheet ==
    /\ pc = "loaded"
    /\ tlf_df \in TlfFrames
    /\ gl_df \in GlFrames
    /\ ws = NoWorksheet
    /\ GLIdle
    /\ MergeIdle
    /\ AppIdle

\* lines 184-186 and 210-217
ComputeSearchKeys ==
    /\ pc = "loaded"
    /\ tlf_df' = TlfSearchKeyed(tlf_df)
    /\ gl_df' = GlSearchKeyed(gl_df)
    /\ pc' = "keyed"
    /\ UNCHANGED <<zip_walk, tlf_path, source_files, sheet_names, files_to_process,
                   item_idx, book, reads, printed, ret, ui, ws>>
    /\ UNCHANGED <<mergeVars, appVars>>

\* lines 220-395
WriteWorksheet ==
    /\ pc = "keyed"
    /\ ws' = Worksheet(tlf_df, gl_df)
    /\ pc' = "written"
    /\ UNCHANGED <<zip_walk, tlf_path, source_files, sheet_names, files_to_process,
                   item_idx, book, reads, printed, ret, ui, tlf_df, gl_df>>
    /\ UNCHANGED <<mergeVars, appVars>>

NextSheet ==
    \/ ComputeSearchKeys
    \/ WriteWorksheet

SpecSheet == InitSheet /\ [][NextSheet]_vars

\* ---- C11 ----
\* the rows of a written table at or before row i that hold the search value
\* of row i
C11_SameValueUpTo(table, search_pos, i) ==
    {j \in 1..i : table.rows[j][search_pos] = table.rows[i][search_pos]}

C11_KeysCountOccurrences(table, search_pos) ==
    LET key_pos == ColPos(table.columns, SearchKeyName)
    IN  (table.present /\ key_pos # 0) =>
           /\ \A i \in DOMAIN table.rows :
                 table.rows[i][key_pos] =
                    table.rows[i][search_pos] \o <<"|">>
                       \o IntToStr(Cardinality(C11_SameValueUpTo(table, search_pos, i)))
           /\ \A i, j \in DOMAIN table.rows :
                 i # j => table.rows[i][key_pos] # table.rows[j][key_pos]

\* the source table is written in the order of CH, RC, OC, Product Code
C11_WrittenSorted(table) ==
    \A i, j \in DOMAIN table.rows :
       i < j => ~KeyLess(<<table.rows[j][3], table.rows[j][1], table.rows[j][2],
                           table.rows[j][4]>>,
                         <<table.rows[i][3], table.rows[i][1], table.rows[i][2],
                           table.rows[i][4]>>)

\* C11: in each table written to a page, the _SearchKey of a row with search
\* value v (9th reference column, Seq of the source table) is v|k, k being the
\* 1-based count of rows with the same search value at or before that row in
\* the written order (the source table sorted by CH, RC, OC, Product Code);
\* no two rows of one table share a _SearchKey.
C11_SearchKeyCountsInWrittenOrder ==
    (pc = "written") =>
       /\ C11_KeysCountOccurrences(ws.raw_tlf, 9)
       /\ C11_KeysCountOccurrences(ws.raw_gl, 9)
       /\ C11_WrittenSorted(ws.raw_gl)

\* both tables were written, each with a value that occurs twice, and the
\* source rows came in another order than the written one
C11_Witness ==
    /\ pc = "written"
    /\ ws.raw_tlf.present /\ ws.raw_gl.present
    /\ \E i, j \in DOMAIN ws.raw_tlf.rows :
          i < j /\ ws.raw_tlf.rows[i][9] = ws.raw_tlf.rows[j][9]
    /\ \E i, j \in DOMAIN ws.raw_gl.rows :
          /\ i < j
          /\ ws.raw_gl.rows[i][9] = ws.raw_gl.rows[j][9]
          /\ ws.raw_gl.rows[i][3] # ws.raw_gl.rows[j][3]
          /\ \E m \in DOMAIN ws.raw_gl.rows :
                m < j /\ ws.raw_gl.rows[m][9] # ws.raw_gl.rows[j][9]

\* ---- C12 ----
\* the sheet column a column letter names
C12_ColumnOf(letter) == CHOOSE n \in DOMAIN Letters : <<Letters[n]>> = letter

\* the cell of a raw table at a sheet row and a column letter
C12_Cell(raw, row, letter) == raw.rows[row - raw.header_row][C12_ColumnOf(letter)]

\* MATCH(text, key range, 0): the first sheet row of the range that holds text
C12_Match(raw, f, text) ==
    LET hits == {r \in f.key_start..f.key_end : C12_Cell(raw, r, f.key_col) = text}
    IN  IF hits = {} THEN 0 ELSE MinOf(hits) - f.key_start + 1

\* what a formula shows when the input cell holds v: IFERROR(INDEX(...), "")
C12_Shown(raw, f, v) ==
    LET m == C12_Match(raw, f, v \o <<"|">> \o IntToStr(f.k))
    IN  IF m = 0 THEN <<>> ELSE C12_Cell(raw, f.index_start + m - 1, f.index_col)

\* the rows of the raw table that hold v in the searched column, in order
C12_Occurrences(raw, search_pos, v) ==
    SelectSeq(raw.rows, LAMBDA row : row[search_pos] = v)

C12_PanelLooksUp(panel, raw, reserved, search_pos) ==
    panel.present =>
       /\ Len(panel.rows) = reserved
       /\ ColPos(raw.columns, SearchKeyName) # 0
       /\ \A k \in 1..reserved : \A i \in DOMAIN panel.rows[k].cells :
             LET f == panel.rows[k].cells[i]
                 shown_col == ColPos(raw.columns, panel.headers[i])
             IN  /\ f.input_col = <<"B">> /\ f.input_row = 1
                 /\ f.k = k
                 /\ f.key_col = get_column_letter(ColPos(raw.columns, SearchKeyName))
                 /\ f.key_start = raw.header_row + 1
                 /\ f.key_end = raw.header_row + Len(raw.rows)
                 /\ f.index_col = get_column_letter(shown_col)
                 /\ f.index_start = f.key_start /\ f.index_end = f.key_end
                 /\ \A v \in SearchValues :
                       LET occ == C12_Occurrences(raw, search_pos, v)
                       IN  C12_Shown(raw, f, v) =
                              IF k <= Len(occ) THEN occ[k][shown_col] ELSE <<>>

\* C12: for each lookup panel and each k up to its reserved rows (2 for TLF,
\* 10 for the source panel), every formula of panel row k looks up the key
\* <input cell>|k in the _SearchKey column over exactly the data rows of its
\* raw table and returns the displayed column at the matching row, so that
\* row k shows the k-th occurrence of the searched value.
C12_PanelsLookUpSearchKey ==
    (pc = "written") =>
       /\ C12_PanelLooksUp(ws.tlf_panel, ws.raw_tlf, 2, 9)
       /\ C12_PanelLooksUp(ws.gl_panel, ws.raw_gl, 10, 9)

\* ---- C17 ----
\* sheet rows of a lookup panel: title, header and formula rows
C17_PanelRows(panel) ==
    IF panel.present
    THEN {panel.title_row, panel.header_row} \cup
         {panel.rows[k].row : k \in DOMAIN panel.rows}
    ELSE {}

\* sheet rows of a raw table: label, header and data rows
C17_RawRows(raw) ==
    IF raw.present
    THEN {raw.label_row, raw.header_row} \cup (raw.data_start..raw.data_end)
    ELSE {}

C17_Parts ==
    <<{ws.search_row}, C17_PanelRows(ws.tlf_panel), C17_PanelRows(ws.gl_panel),
      C17_RawRows(ws.raw_tlf), C17_RawRows(ws.raw_gl)>>

\* C17: on every page, for any numbers of reference and source rows (zero
\* included), the search input row, the two lookup panels and the two raw
\* tables with their label rows occupy pairwise disjoint row ranges, and both
\* panels lie entirely above the first raw-data label row.
C17_PartsOfPageDisjoint ==
    (pc = "written") =>
       /\ \A a, b \in DOMAIN C17_Parts :
             a # b => C17_Parts[a] \cap C17_Parts[b] = {}
       /\ \A r \in C17_PanelRows(ws.tlf_panel) \cup C17_PanelRows(ws.gl_panel) :
             \A raw \in {ws.raw_tlf, ws.raw_gl} : raw.present => r < raw.label_row
       /\ ws.raw_tlf.present => Cardinality(C17_RawRows(ws.raw_tlf))
                                   = Len(ws.raw_tlf.rows) + 2
       /\ ws.raw_gl.present => Cardinality(C17_RawRows(ws.raw_gl))
                                   = Len(ws.raw_gl.rows) + 2
       /\ ws.tlf_panel.present => Cardinality(C17_PanelRows(ws.tlf_panel)) = 2 + 2
       /\ ws.gl_panel.present => Cardinality(C17_PanelRows(ws.gl_panel)) = 2 + 10

\* a page with both panels and both raw tables, each table with the most rows
C17_Witness ==
    /\ pc = "written"
    /\ ws.tlf_panel.present /\ ws.gl_panel.present
    /\ Len(ws.raw_tlf.rows) = MaxRows
    /\ Len(ws.raw_gl.rows) = MaxRows

\* a page with no reference table: the source panel moves up
C17_WitnessNoReference ==
    /\ pc = "written"
    /\ ~ws.tlf_panel.present /\ ~ws.raw_tlf.present
    /\ ws.gl_panel.present /\ ws.raw_gl.present

(***************************************************************************)
(* SpecNames: lines 220-221 called again and again on one workbook, for    *)
(* any desired names.                                                      *)
(***************************************************************************)
\* the digits that follow the first n characters of a name
RECURSIVE DigitsAfter(_, _)
DigitsAfter(name, n) ==
    IF n < Len(name) /\ name[n + 1] \in Digits
    THEN <<name[n + 1]>> \o DigitsAfter(name, n + 1)
    ELSE <<>>

\* the title setter of an openpyxl worksheet, used by create_sheet (line
\* 221): a title that equals an existing one up to letter case gets the next
\* free number behind it
avoid_duplicate_name(names, value) ==
    IF \E n \in names : Lower(n) = Lower(value)
    THEN LET counts == {ToInt(DigitsAfter(n, Len(value))) :
                           n \in {m \in names : /\ StartsWith(Lower(m), Lower(value))
                                                /\ DigitsAfter(m, Len(value)) # <<>>}}
             highest == IF counts = {} THEN 0
                        ELSE CHOOSE c \in counts : \A d \in counts : d <= c
         IN  value \o IntToStr(highest + 1)
    ELSE value

\* most sheets created in one workbook
MaxSheets == 3

\* a name of 33 characters
LongStem == [i \in 1..31 |-> "L"] \o <<"A", "B">>

UpperSheetName == <<"S", "H", "E", "E", "T">>

\* desired names: none, the default name in two letter cases, a D-date, a
\* name longer than a sheet name may be
DesiredNames == {<<>>, DefaultSheetName, UpperSheetName, Sheet_240101, LongStem}

InitNames ==
    /\ pc = "writer_open"
    /\ zip_walk = <<>>
    /\ tlf_path = NoPath
    /\ source_files = <<>>
    /\ sheet_names = {}
    /\ files_to_process = <<>>
    /\ item_idx = 0
    /\ book = <<>>
    /\ reads = <<>>
    /\ printed = <<>>
    /\ ret = NotReturned
    /\ ui = <<>>
    /\ SheetIdle
    /\ MergeIdle
    /\ AppIdle

\* lines 220-221: the name is made unique, the sheet is created under it
CreateSheet ==
    /\ pc = "writer_open"
    /\ Len(book) < MaxSheets
    /\ \E desired_sheet_name \in DesiredNames :
          LET target_sheet_name == make_unique_sheet_name(SheetNamesOf(book),
                                                          desired_sheet_name)
          IN  book' = Append(book,
                             [name |-> avoid_duplicate_name(SheetNamesOf(book),
                                                            target_sheet_name),
                              target |-> target_sheet_name,
                              desired |-> desired_sheet_name])
    /\ UNCHANGED <<pc, zip_walk, tlf_path, source_files, sheet_names, files_to_process,
                   item_idx, reads, printed, ret, ui>>
    /\ UNCHANGED <<sheetVars, mergeVars, appVars>>

NextNames == CreateSheet

SpecNames == InitNames /\ [][NextNames]_vars

\* ---- C18 ----
\* the sheet names of the workbook when page i was created
C18_NamesBefore(i) == {book[j].name : j \in 1..(i - 1)}

C18_First31(s) == Slice(s, 0, 31)

C18_ResultIsFreeAndShort(i) ==
    /\ Len(book[i].target) <= 31
    /\ book[i].target \notin C18_NamesBefore(i)

C18_PagesDistinct ==
    \A i, j \in DOMAIN book : i # j => book[i].name # book[j].name

\* C18 as stated: make_unique_sheet_name returns a name of at most 31
\* characters that is not among the existing sheet names, equal to the first
\* 31 characters of the desired name when that is free; all pages of the
\* workbook have pairwise distinct names.
C18_UniqueNameAsStated ==
    /\ \A i \in DOMAIN book :
          /\ C18_ResultIsFreeAndShort(i)
          /\ (C18_First31(book[i].desired) \notin C18_NamesBefore(i))
                => book[i].target = C18_First31(book[i].desired)
    /\ C18_PagesDistinct

\* the name asked for: "Sheet" stands for an empty desired name (line 86)
C18_Asked(desired) == IF desired = <<>> THEN DefaultSheetName ELSE desired

\* C18, amended: make_unique_sheet_name returns a name of at most 31
\* characters that is not among the existing sheet names, equal to the first
\* 31 characters of the desired name, or to "Sheet" for an empty desired
\* name, when that is free; all pages of the workbook have pairwise distinct
\* names.
C18_UniqueName ==
    /\ \A i \in DOMAIN book :
          /\ C18_ResultIsFreeAndShort(i)
          /\ (C18_First31(C18_Asked(book[i].desired)) \notin C18_NamesBefore(i))
                => book[i].target = C18_First31(C18_Asked(book[i].desired))
    /\ C18_PagesDistinct

\* the long name was asked for three times: cut to 31 characters, then cut
\* further to make room for _2 and _3
C18_Witness ==
    /\ Len(book) = 3
    /\ \A i \in DOMAIN book : book[i].desired = LongStem
    /\ book[1].target = Slice(LongStem, 0, 31)
    /\ book[3].target = Slice(LongStem, 0, 29) \o <<"_", "3">>

\* a name that differs from an existing one by letter case only
C18_WitnessLetterCase ==
    /\ Len(book) = 2
    /\ book[1].name = DefaultSheetName
    /\ book[2].target = UpperSheetName
    /\ book[2].name # book[2].target

(***************************************************************************)
(* app.py: rename and Run (lines 150-159 and 205-225).                     *)
(***************************************************************************)
\* str.rstrip(";")
RECURSIVE RStripSemicolons(_)
RStripSemicolons(s) ==
    IF s # <<>> /\ s[Len(s)] = ";" THEN RStripSemicolons(Slice(s, 0, Len(s) - 1)) ELSE s

\* str.replace(old, new): every occurrence, from the left, not overlapping
RECURSIVE Replace(_, _, _)
Replace(s, old, new) ==
    IF s = <<>> THEN <<>>
    ELSE IF StartsWith(s, old) THEN new \o Replace(Slice(s, Len(old), Len(s)), old, new)
    ELSE <<s[1]>> \o Replace(Tail(s), old, new)

LimitWord == <<"l", "i", "m", "i", "t">>
LimitClause == <<" ", "L", "I", "M", "I", "T", " ", "3", "0", "0">>
DatabaseWord == <<"d", "a", "t", "a", "b", "a", "s", "e">>
DfWord == <<"d", "f">>

\* line 209
StrippedQuery(query) == RStripSemicolons(Strip(query))

\* lines 213-214
WithLimit(q) == IF ~Contains(Lower(q), LimitWord) THEN q \o LimitClause ELSE q

\* line 216: the argument of duckdb.query
EngineText(q) == Replace(WithLimit(q), DatabaseWord, DfWord)

\* rows of the uploaded table
DfRows == 301

\* the SQL text without its line comment: "--" hides the rest of the line
WithoutComment(text) ==
    LET starts == {p \in 0..(Len(text) - 2) : text[p + 1] = "-" /\ text[p + 2] = "-"}
    IN  IF starts = {} THEN text ELSE Slice(text, 0, MinOf(starts))

\* duckdb.query raises on a text that is no statement
EngineRaises(text) ==
    ~StartsWith(Lower(Strip(WithoutComment(text))),
                <<"s", "e", "l", "e", "c", "t", " ">>)

\* the number of a LIMIT clause of the statement, -1 without one
LimitOf(text) ==
    LET sql == Lower(WithoutComment(text))
        word == <<" ">> \o LimitWord \o <<" ">>
        at == {p \in 0..(Len(sql) - Len(word)) : Slice(sql, p, p + Len(word)) = word}
    IN  IF at = {} THEN -1
        ELSE LET p == MinOf(at) + Len(word)
             IN  ToInt(DigitsAfter(sql, p))

\* duckdb.query(text).to_df() for a select over the whole table
EngineResult(text) ==
    LET limit == LimitOf(text)
    IN  [is_none |-> FALSE, text |-> text,
         rows |-> IF limit >= 0 /\ limit < DfRows THEN limit ELSE DfRows]

\* a title typed into the page name input
TitlePool == {<<"F", "i", "n", "a", "l">>}

\* largest session in which queries are run: the page ids drawn, the
\* successful runs, the edited queries and the typed titles, taken together
MaxSessionSize == 5

SessionSize ==
    uuid_count + run_id
    + Cardinality({i \in DOMAIN query_pages : query_pages[i].query # DefaultQuery})
    + Cardinality({i \in DOMAIN query_pages : query_pages[i].title \in TitlePool})

\* " ;"
Query_Blank == <<" ", ";">>

\* " select * from database Limit 5 ;"
Query_Limit ==
    <<" ">> \o Lower(DefaultQuery) \o <<" ", "L", "i", "m", "i", "t", " ", "5", " ", ";">>

\* "SELECT * FROM database -- all"
Query_Comment == DefaultQuery \o <<" ", "-", "-", " ", "a", "l", "l">>

\* "SELEC"
Query_Typo == <<"S", "E", "L", "E", "C">>

QueryPool == {DefaultQuery, Query_Blank, Query_Limit, Query_Comment, Query_Typo}


\* line 145
ActiveIndex == CHOOSE i \in DOMAIN query_pages : query_pages[i].id = active_page_id

\* lines 151-159: the page name input holds another title than the page
RenamePage ==
    /\ data_frame # "None"
    /\ \E new_title \in TitlePool :
          /\ new_title # query_pages[ActiveIndex].title
          /\ query_pages' = [query_pages EXCEPT ![ActiveIndex].title = new_title]
    /\ UNCHANGED <<data_frame, active_page_id, page_selector_id, is_switching_page,
                   run_id, uuid_count, toast, last_call>>
    /\ NoRunOutput
    /\ UNCHANGED <<glVars, sheetVars, mergeVars>>

\* lines 209-216 for each text of the editor: the stripped query, the text
\* for the engine, whether the engine raises on it, and its result
RunOf ==
    [query \in QueryPool |->
        LET q == StrippedQuery(query)
            text == EngineText(q)
        IN  [q |-> q, text |-> text, raises |-> EngineRaises(text),
             result |-> EngineResult(text)]]

\* the page keeps the result it had
FailedPage_KeepsResult(page) == page

\* line 225
FailedPage(page) == [page EXCEPT !.last_result = NoResult]

\* run_id stays as it is
NextRunId_Same(id) == id

\* line 220
NextRunId(id) == id + 1

\* lines 200-225: the form is submitted with the text of the editor
Run ==
    /\ data_frame # "None"
    /\ \E query \in QueryPool :
          LET q == RunOf[query].q
              text == RunOf[query].text
              page == [query_pages[ActiveIndex] EXCEPT !.query = query]
          IN  IF q = <<>>
              THEN \* line 211 raises, lines 224-225
                   /\ sent' = None
                   /\ error' = "SQL_empty"
                   /\ query_pages' = [query_pages EXCEPT ![ActiveIndex] = FailedPage(page)]
                   /\ UNCHANGED <<run_id, toast>>
              ELSE IF RunOf[query].raises
              THEN \* line 216 raises, lines 224-225
                   /\ sent' = text
                   /\ error' = "SQL_error"
                   /\ query_pages' = [query_pages EXCEPT ![ActiveIndex] = FailedPage(page)]
                   /\ UNCHANGED <<run_id, toast>>
              ELSE \* lines 216-222
                   /\ sent' = text
                   /\ error' = "None"
                   /\ query_pages' = [query_pages EXCEPT
                                         ![ActiveIndex] = [page EXCEPT !.last_result =
                                                              RunOf[query].result]]
                   /\ run_id' = NextRunId(run_id)
                   /\ toast' = "results_updated"
    /\ UNCHANGED <<data_frame, active_page_id, page_selector_id, is_switching_page,
                   uuid_count, last_call>>
    /\ UNCHANGED <<glVars, sheetVars, mergeVars>>

NextRun ==
    \/ UploadFile
    \/ UploadNewFile /\ SessionSize' <= MaxSessionSize
    \/ AddNewPage /\ SessionSize' <= MaxSessionSize
    \/ RemovePage
    \/ SelectPage
    \/ RenamePage /\ SessionSize' <= MaxSessionSize
    \/ Run /\ SessionSize' <= MaxSessionSize

SpecRun == InitApp /\ [][NextRun]_vars

(***************************************************************************)
(* SpecPages: the page helpers, page selection and rename.                 *)
(***************************************************************************)
\* most pages of a session in which pages are renamed
MaxTabs == 3

AddNewPageTabs ==
    /\ Len(query_pages) < MaxTabs
    /\ AddNewPage

NextPages ==
    \/ UploadFile
    \/ UploadNewFile
    \/ AddNewPageTabs
    \/ RemovePage
    \/ SelectPage
    \/ RenamePage

SpecPages == InitApp /\ [][NextPages]_vars

\* ---- C13 ----
\* a Run of this text fails: it is empty after stripping, or the engine raises
C13_Fails(query) == RunOf[query].q = <<>> \/ RunOf[query].raises

\* the Run button was pressed with this text in the editor
C13_RunWith(query) == Run /\ query_pages'[ActiveIndex].query = query

\* C13: when a Run fails (the query is empty after stripping, or the engine
\* raises), the error is displayed, the active page's last_result is set to
\* None, run_id is unchanged and the last_result of every other page is
\* unchanged.
C13_FailedRunClearsOnlyActiveResult ==
    [][\A query \in QueryPool :
          (C13_RunWith(query) /\ C13_Fails(query)) =>
             /\ error' # "None"
             /\ query_pages'[ActiveIndex].last_result = NoResult
             /\ run_id' = run_id
             /\ Len(query_pages') = Len(query_pages)
             /\ \A i \in DOMAIN query_pages :
                   i # ActiveIndex =>
                      query_pages'[i].last_result = query_pages[i].last_result]_vars

\* a Run failed on a page while another page holds a result
C13_Witness ==
    /\ error # "None"
    /\ query_pages[ActiveIndex].last_result = NoResult
    /\ run_id = 1
    /\ \E i \in DOMAIN query_pages : ~query_pages[i].last_result.is_none

\* the engine raised on the text it was sent
C13_WitnessEngineRaises ==
    /\ error = "SQL_error"
    /\ sent # None
    /\ run_id = 1

\* ---- C14 ----
\* the key of the result table of the active page (line 242)
C14_ResultKey == <<active_page_id, run_id>>

\* C14: every successful Run increases run_id by exactly one and stores the
\* result in the active page's last_result, so the key of the result table
\* after the Run differs from the key before it; add, remove, rename and
\* switch do not change run_id.
C14_RunIdCountsSuccessfulRuns ==
    /\ [][\A query \in QueryPool :
             (C13_RunWith(query) /\ ~C13_Fails(query)) =>
                /\ run_id' = run_id + 1
                /\ query_pages'[ActiveIndex].last_result = RunOf[query].result
                /\ ~query_pages'[ActiveIndex].last_result.is_none
                /\ C14_ResultKey' # C14_ResultKey]_vars
    /\ [][(AddNewPage \/ RemovePage \/ RenamePage \/ SelectPage) =>
             run_id' = run_id]_vars

\* a page was run twice with success
C14_Witness ==
    /\ run_id = 2
    /\ Len(query_pages) = 1
    /\ sent # None
    /\ error = "None"
    /\ ~query_pages[1].last_result.is_none

\* ---- C15 ----
\* the user's query stripped of surrounding whitespace and trailing semicolons
C15_Stripped(query) == RStripSemicolons(Strip(query))

C15_HasLimit(s) == Contains(Lower(s), LimitWord)

\* the text the claim describes
C15_Text(query) ==
    LET stripped == C15_Stripped(query)
    IN  Replace(IF C15_HasLimit(stripped) THEN stripped ELSE stripped \o LimitClause,
                DatabaseWord, DfWord)

\* C15: the text sent to the query engine is the user's query stripped of
\* surrounding whitespace and trailing semicolons, with ' LIMIT 300' appended
\* exactly when the stripped text does not contain 'limit' in any letter case,
\* and with every 'database' replaced by 'df'; hence a query whose text
\* contains no 'limit' never yields more than 300 rows.
C15_SentTextCapsRows ==
    (sent # None) =>
       LET page == query_pages[ActiveIndex]
       IN  /\ sent = C15_Text(page.query)
           /\ (~C15_HasLimit(page.query) /\ ~page.last_result.is_none)
                 => page.last_result.rows <= 300

\* ---- C16 ----
\* C16: after any sequence of add_new_page, remove_page of the active page,
\* page selection and rename, active_page_id is the id of a page of
\* query_pages and page ids are pairwise distinct; after removing the active
\* page at index i the active page is the page that was at index i-1, or the
\* new first page when i was 0.
C16_ActivePageExists ==
    /\ [](/\ active_page_id \in PageIds
          /\ \A i, j \in DOMAIN query_pages :
                i # j => query_pages[i].id # query_pages[j].id)
    /\ [][(RemovePage /\ Len(query_pages) > 1) =>
             /\ Len(query_pages') = Len(query_pages) - 1
             /\ active_page_id \notin {query_pages'[i].id : i \in DOMAIN query_pages'}
             /\ active_page_id' = IF ActiveIndex = 1 THEN query_pages[2].id
                                  ELSE query_pages[ActiveIndex - 1].id
             /\ active_page_id' = IF ActiveIndex = 1 THEN query_pages'[1].id
                                  ELSE query_pages'[ActiveIndex - 1].id]_vars

\* the third of three pages was removed while active: the second is active
C16_Witness ==
    /\ last_call = [op |-> "remove_page", early |-> FALSE]
    /\ uuid_count = 3
    /\ Len(query_pages) = 2
    /\ query_pages[1].id = 1 /\ query_pages[2].id = 2
    /\ active_page_id = 2
    /\ query_pages[2].title \in TitlePool

\* the first page was removed while active: the new first page is active
C16_WitnessFirstRemoved ==
    /\ last_call = [op |-> "remove_page", early |-> FALSE]
    /\ uuid_count = 3
    /\ Len(query_pages) = 2
    /\ query_pages[1].id = 2
    /\ active_page_id = 2

====
